---- MODULE Spec2Model ----
(***************************************************************************)
(* A model of gemd.json.GEMDJson (src/gemd/json/gemd_json.py): the class   *)
(* registry, dumps, loads / raw_loads and the object hook _load_and_index. *)
(*                                                                         *)
(* A JSON text is modelled by the sequence of its dicts in the order of    *)
(* their closing braces, which is the order in which json.loads hands them *)
(* to object_hook.  Every dict records its own keys; the dicts nested in   *)
(* the value of a key are named by their positions in the sequence.        *)
(*                                                                         *)
(* The dict under "uids" of an entity carries no "type" key, so the hook   *)
(* hands it back unchanged; it is kept as the set of (scope, id) pairs of  *)
(* its entity and is not a dict of the sequence.  flatten,                 *)
(* substitute_links, set_uuids, the encoder and the entity classes are     *)
(* imported by gemd_json.py and modelled from their documented behaviour.  *)
(***************************************************************************)
EXTENDS Integers, Sequences, FiniteSets, TLC

\* ------------------------------------------------------------------ bounds
MaxCalls == 2      \* loads / raw_loads calls of one behaviour
MaxRegs  == 2      \* register_classes calls of one behaviour
MaxDumps == 2      \* dumps calls of one behaviour
NEnt     == 3      \* entities of the caller's object graph
MaxRefs  == 3      \* references held in the caller's object graph

\* ------------------------------------------------------- classes and tags
\* LinkByUID.typ
LinkTag == "link_by_uid"

\* GEMDJson._clazzes, in list order (three of the built-in classes)
Clazzes == <<"MaterialRun", "ProcessRun", "NominalReal">>

\* clazz.typ
Typ(clazz) ==
  CASE clazz = "MaterialRun"   -> "material_run"
    [] clazz = "MyMaterialRun" -> "material_run"
    [] clazz = "ProcessRun"    -> "process_run"
    [] clazz = "NominalReal"   -> "nominal_real"

\* isinstance(obj, BaseEntity) for an instance of clazz
IsBaseEntity(clazz) == clazz \in {"MaterialRun", "MyMaterialRun", "ProcessRun"}

\* str.lower() on the scopes that occur
Lower(s) ==
  CASE s = "ID" -> "id"
    [] s = "My" -> "my"
    [] OTHER    -> s

\* Put that keeps the class a known key already has (dict.setdefault)
PutIfAbsent(m, k, v) == [x \in (DOMAIN m) \cup {k} |-> IF x \in DOMAIN m THEN m[x] ELSE v]

\* dict.update(key -> value) on a mapping kept as a function
Put(m, k, v) == [x \in (DOMAIN m) \cup {k} |-> IF x = k THEN v ELSE m[x]]

RECURSIVE BuildIndex(_, _)
\* GEMDJson.__init__: the loop over _clazzes, first i classes done
BuildIndex(i, m) ==
  IF i > Len(Clazzes) THEN m
  ELSE BuildIndex(i + 1, Put(m, Typ(Clazzes[i]), Clazzes[i]))

\* the registry of a freshly constructed GEMDJson
InitClazzIndex == BuildIndex(1, [x \in {} |-> ""])

\* the GEMDJson instances of a behaviour
Insts == {"j1", "j2"}

\* ------------------------------------------------------------- JSON texts
\* one dict of a text
Dict(tagged, type, scope, id, uids, name, fields) ==
  [tagged |-> tagged, type |-> type, scope |-> scope, id |-> id,
   uids |-> uids, name |-> name, fields |-> fields]

RECURSIVE SumLen(_, _)
\* total number of dicts in the first n texts of a sequence of texts
SumLen(ts, n) == IF n = 0 THEN 0 ELSE SumLen(ts, n - 1) + Len(ts[n])

RECURSIVE Flat(_, _)
\* concatenation of the first n sequences of a sequence of sequences
Flat(ss, n) == IF n = 0 THEN <<>> ELSE Flat(ss, n - 1) \o ss[n]

\* a text moved k dicts to the right: the positions it names move with it
Shift(t, k) ==
  [i \in 1..Len(t) |->
     [t[i] EXCEPT !.fields =
        [f \in 1..Len(t[i].fields) |->
           [key  |-> t[i].fields[f].key,
            list |-> t[i].fields[f].list,
            kids |-> [j \in 1..Len(t[i].fields[f].kids) |->
                        t[i].fields[f].kids[j] + k]]]]]

\* The text of a dict whose keys, in textual order, are fs[1].key, ...; the
\* value of fs[i].key is the list (or the single value) of the texts fs[i].subs.
Text(tagged, type, scope, id, uids, name, fs) ==
  LET subsOf == [f \in 1..Len(fs) |-> fs[f].subs]
      all    == Flat(subsOf, Len(fs))
      before(f) == SumLen([g \in 1..Len(fs) |-> [x \in 1..Len(fs[g].subs) |-> 0]], f - 1)
      placed == [n \in 1..Len(all) |-> Shift(all[n], SumLen(all, n - 1))]
      fields == [f \in 1..Len(fs) |->
                   [key  |-> fs[f].key,
                    list |-> fs[f].list,
                    kids |-> [j \in 1..Len(fs[f].subs) |->
                                SumLen(all, before(f) + j)]]]
  IN  Flat(placed, Len(all)) \o <<Dict(tagged, type, scope, id, uids, name, fields)>>

\* {"type": "link_by_uid", "scope": scope, "id": id}
LinkText(scope, id) == Text(TRUE, LinkTag, scope, id, {}, "", <<>>)

\* a tagged dict with a name, uids and a list of nested values under "refs"
EntText(type, uids, name, refs) ==
  Text(TRUE, type, "", "", uids, name,
       <<[key |-> "refs", list |-> TRUE, subs |-> refs]>>)

\* the envelope, "context" written before "object" (sorted keys)
EnvText(ctx, obj) ==
  Text(FALSE, "", "", "", {}, "",
       <<[key |-> "context", list |-> TRUE,  subs |-> ctx],
         [key |-> "object",  list |-> FALSE, subs |-> <<obj>>]>>)

\* the same envelope with "object" written before "context"
EnvTextObjFirst(ctx, obj) ==
  Text(FALSE, "", "", "", {}, "",
       <<[key |-> "object",  list |-> FALSE, subs |-> <<obj>>],
         [key |-> "context", list |-> TRUE,  subs |-> ctx]>>)

\* ------------------------------------------------------------------ state
VARIABLES
  clazz_index,   \* self._clazz_index of every GEMDJson instance
  regs,          \* register_classes calls made so far
  lastReg,       \* the last register_classes call: instance, argument, how it ended
  calls,         \* the loads / raw_loads calls: their text, position and values
  index,         \* the dict 'index' created by each loads / raw_loads call
  heap,          \* the entity objects of the caller, for dumps
  root,          \* the object the caller passes to dumps
  texts,         \* the strings returned by the dumps calls so far
  order          \* the order in which flatten lists the entities

vars == <<clazz_index, regs, lastReg, calls, index, heap, root, texts, order>>

decodeVars == <<calls, index>>
dumpVars   == <<heap, root, texts, order>>
regVars    == <<clazz_index, regs, lastReg>>

CallIds == 1..MaxCalls

\* ----------------------------------------------------------- Python values
\* a pointer to the object made from dict p of the text of call c
ObjVal(c, p) == [k |-> "obj", c |-> c, p |-> p, scope |-> "", id |-> ""]

\* a LinkByUID value
LinkVal(scope, id) == [k |-> "link", c |-> 0, p |-> 0, scope |-> scope, id |-> id]

NoVal == [k |-> "none", c |-> 0, p |-> 0, scope |-> "", id |-> ""]

\* what object_hook handed back for one dict: the value, and the object if
\* one was constructed (made) from the dict
Hooked(val, made, cls, d, fields) ==
  [val |-> val, made |-> made, cls |-> cls, uids |-> d.uids, name |-> d.name,
   scope |-> d.scope, id |-> d.id, fields |-> fields]

IdleCall ==
  [inst |-> "j1", doc |-> <<>>, substitute |-> FALSE, envelope |-> FALSE,
   pc |-> 0, out |-> <<>>, status |-> "idle", err |-> "", result |-> NoVal]

\* ------------------------------------------------------- register_classes
\* the argument of register_classes: a dict given by its items in order, or
\* something that is not a dict
Classes(isdict, items) == [isdict |-> isdict, items |-> items]

Item(kstr, key, vclass, val) == [kstr |-> kstr, key |-> key, vclass |-> vclass, val |-> val]

RECURSIVE Update(_, _, _)
\* self._clazz_index.update(classes), the first n items
Update(m, items, n) ==
  IF n = 0 THEN m ELSE Put(Update(m, items, n - 1), items[n].key, items[n].val)

\* register_classes that updates the registry before it checks keys and values
RegisterOutcomeEager(m, classes) ==
  IF ~classes.isdict THEN [err |-> "ValueError", index |-> m]
  ELSE IF \E i \in 1..Len(classes.items) :
            ~classes.items[i].kstr \/ ~classes.items[i].vclass
       THEN [err |-> "ValueError", index |-> Update(m, classes.items, Len(classes.items))]
  ELSE [err |-> "ok", index |-> Update(m, classes.items, Len(classes.items))]

\* GEMDJson.register_classes(classes) on the registry m: the three checks,
\* each raising ValueError, then the update
RegisterOutcome(m, classes) ==
  IF ~classes.isdict THEN [err |-> "ValueError", index |-> m]
  ELSE IF \E i \in 1..Len(classes.items) : ~classes.items[i].kstr
       THEN [err |-> "ValueError", index |-> m]
  ELSE IF \E i \in 1..Len(classes.items) : ~classes.items[i].vclass
       THEN [err |-> "ValueError", index |-> m]
  ELSE [err |-> "ok", index |-> Update(m, classes.items, Len(classes.items))]

\* the arguments tried
RegArgs ==
  { Classes(FALSE, <<>>),
    Classes(TRUE, <<Item(TRUE, "material_run", TRUE, "MyMaterialRun")>>),
    Classes(TRUE, <<Item(TRUE, "custom", TRUE, "MyMaterialRun"),
                    Item(FALSE, "7", TRUE, "ProcessRun")>>),
    Classes(TRUE, <<Item(TRUE, "material_run", TRUE, "MyMaterialRun"),
                    Item(TRUE, "process_run", FALSE, "not a class")>>),
    Classes(TRUE, <<Item(TRUE, "material_run", TRUE, "MaterialRun"),
                    Item(TRUE, "custom", TRUE, "ProcessRun")>>) }

\* a call of register_classes(classes) on instance j
RegisterClasses(j, classes) ==
  /\ regs < MaxRegs
  /\ LET r == RegisterOutcome(clazz_index[j], classes)
     IN  /\ clazz_index' = [clazz_index EXCEPT ![j] = r.index]
         /\ lastReg' = [inst |-> j, classes |-> classes, err |-> r.err]
  /\ regs' = regs + 1
  /\ UNCHANGED <<decodeVars, dumpVars>>

\* ------------------------------------------------- loads, raw_loads, hook
\* one index object shared by every call
IndexSlotShared(c) == 1

\* the running index of call c is the dict created by that call
IndexSlot(c) == c

\* the top-level dict of a text is an untagged dict with an "object" key
HasObjectKey(doc) ==
  /\ Len(doc) > 0
  /\ ~doc[Len(doc)].tagged
  /\ \E f \in 1..Len(doc[Len(doc)].fields) :
       /\ doc[Len(doc)].fields[f].key = "object"
       /\ ~doc[Len(doc)].fields[f].list

\* loads leaving 'substitute' at its default
LoadsSubstituteOff == FALSE

\* the 'substitute' argument loads gives the hook
LoadsSubstitute == TRUE

\* the 'substitute' argument raw_loads leaves at its default
RawLoadsSubstitute == FALSE

\* GEMDJson.loads(json_str) on instance j, up to the start of the parse
LoadsBegin(c, j, doc) ==
  /\ calls[c].status = "idle"
  /\ \A b \in CallIds : b < c => calls[b].status # "idle"
  /\ HasObjectKey(doc)
  /\ calls' = [calls EXCEPT ![c] =
       [IdleCall EXCEPT !.inst = j, !.doc = doc, !.substitute = LoadsSubstitute,
                        !.envelope = TRUE, !.pc = 1, !.status = "run"]]
  /\ index' = [index EXCEPT ![IndexSlot(c)] = {}]
  /\ UNCHANGED <<regVars, dumpVars>>

\* GEMDJson.raw_loads(json_str) on instance j, up to the start of the parse
RawLoadsBegin(c, j, doc) ==
  /\ calls[c].status = "idle"
  /\ \A b \in CallIds : b < c => calls[b].status # "idle"
  /\ Len(doc) > 0
  /\ calls' = [calls EXCEPT ![c] =
       [IdleCall EXCEPT !.inst = j, !.doc = doc, !.substitute = RawLoadsSubstitute,
                        !.envelope = FALSE, !.pc = 1, !.status = "run"]]
  /\ index' = [index EXCEPT ![IndexSlot(c)] = {}]
  /\ UNCHANGED <<regVars, dumpVars>>

\* the keys under which an entity with these uids is indexed
IndexKeys(uids) == {<<Lower(u[1]), u[2]>> : u \in uids}

\* object_index[(scope.lower(), uid)] = obj for every item of obj.uids
IndexPut(ix, uids, ref) ==
  {e \in ix : <<e.scope, e.id>> \notin IndexKeys(uids)}
    \cup {[scope |-> k[1], id |-> k[2], ref |-> ref] : k \in IndexKeys(uids)}

\* (scope, id) in object_index
InIndex(ix, scope, id) == \E e \in ix : e.scope = scope /\ e.id = id

\* object_index[(scope, id)]
IndexGet(ix, scope, id) == (CHOOSE e \in ix : e.scope = scope /\ e.id = id).ref

\* a lookup under the scope as spelled in the link
LinkKeyExact(scope, id) == <<scope, id>>

\* the key the hook looks a link up under
LinkKey(scope, id) == <<Lower(scope), id>>

\* the values of the keys of dict d, its nested dicts replaced by what the
\* hook returned for them
FieldVals(out, d) ==
  [f \in 1..Len(d.fields) |->
     [key  |-> d.fields[f].key,
      list |-> d.fields[f].list,
      vals |-> [j \in 1..Len(d.fields[f].kids) |-> out[d.fields[f].kids[j]].val]]]

\* typ in self._clazz_index
KnownType(reg, typ) == typ \in DOMAIN reg

\* a plain 'else' in place of the comparison with the link tag
IsLinkTypeAny(typ) == TRUE

\* typ == self._link_type.typ
IsLinkType(typ) == typ = LinkTag

\* GEMDJson._load_and_index(d, object_index, substitute): what it returns
\* (hooked), the index afterwards, and the error it raises if any
LoadAndIndex(reg, c, p, d, out, ix, substitute) ==
  IF ~d.tagged
  THEN [err |-> "", ix |-> ix,
        hooked |-> Hooked(ObjVal(c, p), TRUE, "dict", d, FieldVals(out, d))]
  ELSE IF KnownType(reg, d.type)
  THEN LET clz == reg[d.type]
       IN  [err |-> "",
            ix  |-> IF IsBaseEntity(clz) THEN IndexPut(ix, d.uids, ObjVal(c, p)) ELSE ix,
            hooked |-> Hooked(ObjVal(c, p), TRUE, clz, d, FieldVals(out, d))]
  ELSE IF IsLinkType(d.type)
  THEN LET key == LinkKey(d.scope, d.id)
       IN  IF substitute /\ InIndex(ix, key[1], key[2])
           THEN [err |-> "", ix |-> ix,
                 hooked |-> Hooked(IndexGet(ix, key[1], key[2]), FALSE, "", d, <<>>)]
           ELSE [err |-> "", ix |-> ix,
                 hooked |-> Hooked(LinkVal(d.scope, d.id), FALSE, "", d, <<>>)]
  ELSE [err |-> "TypeError", ix |-> ix,
        hooked |-> Hooked(NoVal, FALSE, "", d, <<>>)]

\* call record cl after the hook has returned, or raised, on its next dict
AfterHook(cl, r) ==
  IF r.err # ""
  THEN [cl EXCEPT !.status = "err", !.err = r.err]
  ELSE [cl EXCEPT !.pc = cl.pc + 1, !.out = Append(cl.out, r.hooked)]

\* json.loads reaches the closing brace of the next dict of call c and calls
\* object_hook on it
Hook(c) ==
  /\ calls[c].status = "run"
  /\ calls[c].pc <= Len(calls[c].doc)
  /\ LET cl == calls[c]
         r  == LoadAndIndex(clazz_index[cl.inst], c, cl.pc, cl.doc[cl.pc], cl.out,
                            index[IndexSlot(c)], cl.substitute)
     IN  /\ calls' = [calls EXCEPT ![c] = AfterHook(cl, r)]
         /\ index' = [index EXCEPT ![IndexSlot(c)] = r.ix]
  /\ UNCHANGED <<regVars, dumpVars>>

\* raw["object"] for the object made from the top-level dict
ObjectField(h) ==
  LET f == CHOOSE f \in 1..Len(h.fields) : h.fields[f].key = "object"
  IN  h.fields[f].vals[1]

\* call record cl once the parse is over: loads returns raw["object"],
\* raw_loads the value of the whole text
Returned(cl) ==
  [cl EXCEPT !.status = "done",
             !.result = IF cl.envelope THEN ObjectField(cl.out[Len(cl.doc)])
                        ELSE cl.out[Len(cl.doc)].val]

\* the parse of call c is over and the call returns
Return(c) ==
  /\ calls[c].status = "run"
  /\ calls[c].pc = Len(calls[c].doc) + 1
  /\ calls' = [calls EXCEPT ![c] = Returned(calls[c])]
  /\ UNCHANGED <<index, regVars, dumpVars>>

RECURSIVE Parsed(_, _, _, _)
\* json.loads run to its end without interruption: the hook on every dict in
\* turn until one raises, then the return
Parsed(reg, c, cl, ix) ==
  IF cl.status # "run" THEN [call |-> cl, ix |-> ix]
  ELSE IF cl.pc > Len(cl.doc) THEN [call |-> Returned(cl), ix |-> ix]
  ELSE LET r == LoadAndIndex(reg, c, cl.pc, cl.doc[cl.pc], cl.out, ix, cl.substitute)
       IN  Parsed(reg, c, AfterHook(cl, r), r.ix)

\* a whole GEMDJson.loads(json_str) call on instance j, nothing running
\* in between
Loads(c, j, doc) ==
  /\ calls[c].status = "idle"
  /\ \A b \in CallIds : b < c => calls[b].status # "idle"
  /\ HasObjectKey(doc)
  /\ LET cl == [IdleCall EXCEPT !.inst = j, !.doc = doc, !.substitute = LoadsSubstitute,
                                !.envelope = TRUE, !.pc = 1, !.status = "run"]
         r  == Parsed(clazz_index[j], c, cl, {})
     IN  /\ calls' = [calls EXCEPT ![c] = r.call]
         /\ index' = [index EXCEPT ![IndexSlot(c)] = r.ix]
  /\ UNCHANGED <<regVars, dumpVars>>

\* ------------------------------------------------------ the texts decoded
\* context entries used below
EntA  == EntText("material_run", {<<"id", "a">>}, "A", <<>>)
EntAU == EntText("material_run", {<<"ID", "a">>, <<"my", "x">>}, "A", <<>>)
EntB  == EntText("process_run", {<<"id", "b">>}, "B", <<LinkText("ID", "a")>>)
EntZ  == EntText("process_run", {<<"ID", "a">>}, "Z", <<>>)
EntC  == EntText("custom", {<<"id", "c">>}, "C", <<>>)
Val   == EntText("nominal_real", {}, "V", <<>>)
Bogus == EntText("bogus", {}, "?", <<>>)

\* an untagged dict {"k": [..]}
Plain(subs) ==
  Text(FALSE, "", "", "", {}, "", <<[key |-> "k", list |-> TRUE, subs |-> subs]>>)

\* contents of envelopes: the values of "context" and of "object"
Contents ==
  { [ctx |-> <<EntA>>,        obj |-> LinkText("ID", "a")],
    [ctx |-> <<EntAU, EntB>>, obj |-> LinkText("id", "b")],
    [ctx |-> <<EntB, EntA>>,  obj |-> LinkText("id", "b")],
    [ctx |-> <<EntA, EntZ>>,  obj |-> LinkText("id", "a")],
    [ctx |-> <<EntZ>>,        obj |-> Plain(<<LinkText("id", "a"), LinkText("my", "a"), Val>>)],
    [ctx |-> <<>>,            obj |-> LinkText("id", "a")],
    [ctx |-> <<EntText("material_run", {<<"id", "a">>}, "A", <<Plain(<<Bogus>>)>>)>>,
                              obj |-> LinkText("id", "a")] }

\* the envelopes with "context" before "object"
CtxFirstDocs == {EnvText(e.ctx, e.obj) : e \in Contents}

\* the envelopes with "object" before "context"
ObjFirstDocs ==
  {EnvTextObjFirst(e.ctx, e.obj) : e \in {x \in Contents : x.ctx \in {<<EntA>>, <<EntZ>>}}}

\* texts given to loads
LoadsDocs == CtxFirstDocs \cup ObjFirstDocs

\* texts given to raw_loads
RawDocs ==
  { EntText("material_run", {<<"id", "a">>}, "A", <<EntZ, LinkText("id", "a")>>),
    Plain(<<Plain(<<Bogus>>)>>) }

\* ------------------------------------------------------------ specification
NoHeap == <<>>

InitDecode ==
  /\ clazz_index = [j \in Insts |-> InitClazzIndex]
  /\ regs = 0
  /\ lastReg = [inst |-> "j1", classes |-> Classes(TRUE, <<>>), err |-> "none"]
  /\ calls = [c \in CallIds |-> IdleCall]
  /\ index = [c \in CallIds |-> {}]

Init ==
  /\ InitDecode
  /\ heap = NoHeap
  /\ root = 0
  /\ texts = <<>>
  /\ order = <<>>

\* concurrent loads / raw_loads calls on one instance
Next ==
  \/ \E c \in CallIds, doc \in LoadsDocs : LoadsBegin(c, "j1", doc)
  \/ \E c \in CallIds, doc \in RawDocs : RawLoadsBegin(c, "j1", doc)
  \/ \E c \in CallIds : Hook(c)
  \/ \E c \in CallIds : Return(c)

Spec == Init /\ [][Next]_vars

\* ------------------------------------------------- vocabulary of the claims
\* the dicts of call c the hook has returned from
Processed(c) == 1..Len(calls[c].out)

\* d is a link token
IsLinkDict(d) == d.tagged /\ d.type = LinkTag

\* the hook built an entity (an instance of a BaseEntity class) from dict q
IsEntityAt(c, q) == calls[c].out[q].made /\ IsBaseEntity(calls[c].out[q].cls)

\* the entity h carries the pair (scope, id), scopes compared ignoring case
Carries(h, scope, id) == \E u \in h.uids : Lower(u[1]) = Lower(scope) /\ u[2] = id

\* the entities of call c parsed before dict p that carry the pair of link p
EarlierCarriers(c, p) ==
  {q \in 1..(p - 1) : IsEntityAt(c, q)
                      /\ Carries(calls[c].out[q], calls[c].doc[p].scope, calls[c].doc[p].id)}

Max(S) == CHOOSE x \in S : \A y \in S : y <= x

\* two entities share a pair, scopes compared ignoring case
ShareUid(h1, h2) == \E u \in h1.uids : Carries(h2, u[1], u[2])

DifferentShape(h1, h2) ==
  h1.cls # h2.cls \/ h1.name # h2.name \/ h1.uids # h2.uids \/ h1.fields # h2.fields

\* the tag of d is neither registered on instance j nor the link tag
UnknownTag(j, d) == d.tagged /\ d.type \notin DOMAIN clazz_index[j] /\ d.type # LinkTag

RECURSIVE Sub(_, _)
\* the positions of dict p and of the dicts nested in it
Sub(doc, p) ==
  {p} \cup UNION {UNION {Sub(doc, doc[p].fields[f].kids[j]) :
                             j \in 1..Len(doc[p].fields[f].kids)} :
                    f \in 1..Len(doc[p].fields)}

\* the positions of the dicts inside the value of key 'key' of the top-level dict
Under(doc, key) ==
  LET top == doc[Len(doc)]
  IN  UNION {UNION {Sub(doc, top.fields[f].kids[j]) : j \in 1..Len(top.fields[f].kids)} :
               f \in {g \in 1..Len(top.fields) : top.fields[g].key = key}}

\* every dict of "context" closes before every dict of "object"
CtxBeforeObj(doc) == \A q \in Under(doc, "context"), p \in Under(doc, "object") : q < p

\* every dict of "object" closes before every dict of "context"
ObjBeforeCtx(doc) == \A q \in Under(doc, "context"), p \in Under(doc, "object") : p < q

RECURSIVE SameValue(_, _)
\* two decoded values have the same shape and the same field values
SameValue(v1, v2) ==
  IF v1.k # v2.k THEN FALSE
  ELSE IF v1.k = "link" THEN v1.scope = v2.scope /\ v1.id = v2.id
  ELSE IF v1.k = "none" THEN TRUE
  ELSE LET h1 == calls[v1.c].out[v1.p]
           h2 == calls[v2.c].out[v2.p]
       IN  /\ h1.cls = h2.cls /\ h1.name = h2.name /\ h1.uids = h2.uids
           /\ Len(h1.fields) = Len(h2.fields)
           /\ \A f \in 1..Len(h1.fields) :
                /\ h1.fields[f].key = h2.fields[f].key
                /\ Len(h1.fields[f].vals) = Len(h2.fields[f].vals)
                /\ \A j \in 1..Len(h1.fields[f].vals) :
                     SameValue(h1.fields[f].vals[j], h2.fields[f].vals[j])

\* ------------------------------------------------------------------ claims
\* C2: within one call, decoding an entity whose (scope, id), scope compared
\* ignoring case, is already indexed for a differently-shaped entity decoded
\* earlier fails (ConflictingUID): the hook never returns from the later
\* entity, so no call holds two such entities among its decoded dicts.
ConflictingUIDRejected ==
  \A c \in CallIds : \A p \in Processed(c) : \A q \in 1..(p - 1) :
    ~(/\ IsEntityAt(c, p) /\ IsEntityAt(c, q)
      /\ ShareUid(calls[c].out[p], calls[c].out[q])
      /\ DifferentShape(calls[c].out[p], calls[c].out[q]))

\* C3 as stated: two finished loads calls on envelopes with the same
\* "context" and "object", one with "context" first and one with "object"
\* first, end the same way and return the same value.
KeyOrderIrrelevant ==
  \A c1 \in CallIds, c2 \in CallIds, e \in Contents :
    (/\ calls[c1].envelope /\ calls[c2].envelope
     /\ calls[c1].status \in {"done", "err"} /\ calls[c2].status \in {"done", "err"}
     /\ calls[c1].doc = EnvText(e.ctx, e.obj)
     /\ calls[c2].doc = EnvTextObjFirst(e.ctx, e.obj))
    => /\ calls[c1].status = calls[c2].status
       /\ SameValue(calls[c1].result, calls[c2].result)

\* C3 amended: a link token inside "object" is resolved to the context entity
\* carrying its pair when "context" is written before "object"; when "object"
\* is written before "context" it is never resolved to a context entity (only
\* to an entity parsed earlier inside "object" itself).
EnvelopeOrderRule ==
  \A c \in CallIds : calls[c].envelope =>
    LET doc == calls[c].doc
        out == calls[c].out
    IN  \A p \in Under(doc, "object") \cap Processed(c) : IsLinkDict(doc[p]) =>
          /\ (/\ CtxBeforeObj(doc)
              /\ \E q \in Under(doc, "context") :
                   IsEntityAt(c, q) /\ Carries(out[q], doc[p].scope, doc[p].id))
             => (out[p].val.k = "obj" /\ out[p].val.c = c)
          /\ (ObjBeforeCtx(doc) /\ out[p].val.k = "obj")
             => out[p].val.p \in Under(doc, "object")

\* C3 witness: a loads call on an "object"-first envelope returned a
\* LinkByUID although a context entity of the same text carries its pair.
EnvelopeOrderWitness ==
  \E c \in CallIds :
    /\ calls[c].envelope /\ calls[c].status = "done"
    /\ calls[c].result.k = "link"
    /\ Under(calls[c].doc, "context") # {}
    /\ ObjBeforeCtx(calls[c].doc)
    /\ \E q \in Under(calls[c].doc, "context") :
         IsEntityAt(c, q) /\ Carries(calls[c].out[q], calls[c].result.scope, calls[c].result.id)

\* C5: in a loads call a link token decodes to the entity held in the index,
\* which is the latest entity parsed earlier in the same call that carries
\* the link's id under a scope equal to the link's scope ignoring case; when
\* there is none it decodes to a LinkByUID with the token's scope and id, and
\* the call does not fail on a link token.
LinkResolutionRule ==
  \A c \in CallIds : calls[c].envelope =>
    /\ \A p \in Processed(c) : IsLinkDict(calls[c].doc[p]) =>
         IF EarlierCarriers(c, p) # {}
         THEN calls[c].out[p].val = ObjVal(c, Max(EarlierCarriers(c, p)))
         ELSE calls[c].out[p].val = LinkVal(calls[c].doc[p].scope, calls[c].doc[p].id)
    /\ calls[c].status = "err" => ~IsLinkDict(calls[c].doc[calls[c].pc])

\* C5 witness: a finished loads call resolved a link whose scope is spelled in
\* another case than the scope the entity carries, and left another link, whose
\* id no entity carries under that scope, as a LinkByUID.
LinkResolutionWitness ==
  /\ \E c \in CallIds :
       /\ calls[c].envelope /\ calls[c].status = "done"
       /\ \E p \in Processed(c) :
            /\ IsLinkDict(calls[c].doc[p])
            /\ calls[c].out[p].val.k = "obj"
            /\ \A u \in calls[c].out[calls[c].out[p].val.p].uids :
                 u[1] # calls[c].doc[p].scope
  /\ \E c \in CallIds :
       /\ calls[c].envelope /\ calls[c].status = "done"
       /\ calls[c].result.k = "link"
       /\ \E q \in Processed(c) : IsEntityAt(c, q)

\* C6: the hook raises TypeError exactly on a dict whose tag is neither
\* registered nor the link tag, wherever it is nested, so a call on a text
\* with such a dict never finishes; a dict without "type" is returned as the
\* same plain mapping, its nested dicts replaced by their decoded values.
UnknownTypeRejected ==
  \A c \in CallIds : calls[c].status # "idle" =>
    LET doc == calls[c].doc
        out == calls[c].out
        j   == calls[c].inst
    IN  /\ \A p \in Processed(c) :
             /\ ~UnknownTag(j, doc[p])
             /\ ~doc[p].tagged =>
                  /\ out[p].made /\ out[p].cls = "dict"
                  /\ out[p].val = ObjVal(c, p)
                  /\ out[p].fields = FieldVals(out, doc[p])
        /\ calls[c].status = "err" =>
             calls[c].err = "TypeError" /\ UnknownTag(j, doc[calls[c].pc])
        /\ (\E p \in 1..Len(doc) : UnknownTag(j, doc[p])) => calls[c].status # "done"

\* C6 witness: one call failed with TypeError on an unknown tag nested two
\* dicts deep inside a context entry, and a finished loads call returned a
\* plain mapping.
UnknownTypeWitness ==
  /\ \E c \in CallIds :
       /\ calls[c].status = "err" /\ calls[c].err = "TypeError"
       /\ calls[c].pc < Len(calls[c].doc) - 3
  /\ \E c \in CallIds :
       /\ calls[c].status = "done" /\ calls[c].result.k = "obj"
       /\ calls[c].out[calls[c].result.p].cls = "dict"

\* C10: the index a call uses holds only entities that call parsed, and every
\* value a call decoded (and so every resolved link) points at an object of
\* that same call.
IndexIsCallLocal ==
  \A c \in CallIds : calls[c].status # "idle" =>
    /\ \A e \in index[IndexSlot(c)] : e.ref.c = c
    /\ \A p \in Processed(c) :
         /\ calls[c].out[p].val.k = "obj" => calls[c].out[p].val.c = c
         /\ \A f \in 1..Len(calls[c].out[p].fields) :
              \A i \in 1..Len(calls[c].out[p].fields[f].vals) :
                calls[c].out[p].fields[f].vals[i].k = "obj"
                  => calls[c].out[p].fields[f].vals[i].c = c
    /\ calls[c].result.k = "obj" => calls[c].result.c = c

\* C10 witness: a loads call whose text has no context returned the link
\* ("id", "a") unresolved, while a call that began before it and is still
\* parsing holds an entity under ("id", "a") in its own index.
IndexIsCallLocalWitness ==
  \E c1 \in CallIds, c2 \in CallIds :
    /\ c2 < c1
    /\ calls[c1].status = "done" /\ calls[c1].envelope /\ calls[c1].result.k = "link"
    /\ calls[c1].result.scope = "id" /\ calls[c1].result.id = "a"
    /\ Under(calls[c1].doc, "context") = {}
    /\ calls[c2].status = "run"
    /\ \E e \in index[IndexSlot(c2)] : e.scope = "id" /\ e.id = "a"
    /\ Len(calls[c1].out) > 0 /\ Len(calls[c2].out) > 0

\* ------------------------------------- registration between decode calls
\* texts decoded while the registry changes
RegDocs ==
  { EnvText(<<EntA, EntText("material_run", {<<"id", "d">>}, "D", <<>>)>>,
            LinkText("id", "a")),
    EnvText(<<EntC>>, LinkText("id", "c")) }

\* no call is in the middle of its parse
NoneRunning == \A c \in CallIds : calls[c].status # "run"

\* register_classes on either instance, between and during loads calls that
\* follow one another
NextReg ==
  \/ \E j \in Insts, classes \in RegArgs : RegisterClasses(j, classes)
  \/ \E c \in CallIds, j \in Insts, doc \in RegDocs : NoneRunning /\ LoadsBegin(c, j, doc)
  \/ \E c \in CallIds : Hook(c)
  \/ \E c \in CallIds : Return(c)

SpecReg == Init /\ [][NextReg]_vars

\* the argument passes none of the three checks' failure conditions
ValidClasses(classes) ==
  /\ classes.isdict
  /\ \A i \in 1..Len(classes.items) : classes.items[i].kstr /\ classes.items[i].vclass

\* the keys of the argument
KeysOf(classes) == {classes.items[i].key : i \in 1..Len(classes.items)}

\* the value the argument gives for key t
ValueOf(classes, t) ==
  classes.items[CHOOSE i \in 1..Len(classes.items) : classes.items[i].key = t].val

\* C8: a register_classes call whose argument is not a dict, or has a key that
\* is not a string, or a value that is not a class, ends in ValueError and
\* leaves every registry as it was; any other call succeeds, maps exactly the
\* given tags to the given classes on that instance and keeps every other tag.
RegistrationAllOrNothing ==
  [][regs' # regs =>
       LET j == lastReg'.inst
           a == lastReg'.classes
       IN  IF ~ValidClasses(a)
           THEN lastReg'.err = "ValueError" /\ clazz_index' = clazz_index
           ELSE /\ lastReg'.err = "ok"
                /\ DOMAIN clazz_index'[j] = DOMAIN clazz_index[j] \cup KeysOf(a)
                /\ \A t \in DOMAIN clazz_index'[j] :
                     clazz_index'[j][t] =
                       IF t \in KeysOf(a) THEN ValueOf(a, t) ELSE clazz_index[j][t]
                /\ \A i \in Insts \ {j} : clazz_index'[i] = clazz_index[i]]_vars

\* C8 witness: the last call failed on an argument whose first item was valid
\* and named a tag the instance does not know, and the tag is still unknown.
RegistrationWitness ==
  /\ lastReg.err = "ValueError"
  /\ lastReg.classes.isdict
  /\ Len(lastReg.classes.items) = 2
  /\ lastReg.classes.items[1].kstr /\ lastReg.classes.items[1].vclass
  /\ lastReg.classes.items[1].key \notin DOMAIN clazz_index[lastReg.inst]

\* call c takes a hook step on a tagged dict that is not a link token
HookStepOn(c) ==
  /\ calls[c].status = "run"
  /\ Len(calls'[c].out) = Len(calls[c].out) + 1
  /\ calls[c].doc[calls[c].pc].tagged
  /\ ~IsLinkDict(calls[c].doc[calls[c].pc])

\* C9: a dict tagged t that is decoded on instance j after the last
\* register_classes call mapped t to a class on j is constructed with that
\* class; with no registration at all it is constructed with the built-in
\* class; objects decoded earlier keep their class through every later step;
\* and a registration on one instance changes no other instance's registry.
RegistryOverrideOrdering ==
  [][/\ \A c \in CallIds : HookStepOn(c) =>
          LET t   == calls[c].doc[calls[c].pc].type
              new == calls'[c].out[calls[c].pc]
          IN  /\ (/\ lastReg.err = "ok" /\ lastReg.inst = calls[c].inst
                  /\ t \in KeysOf(lastReg.classes))
                 => new.cls = ValueOf(lastReg.classes, t)
              /\ (regs = 0 /\ t \in DOMAIN InitClazzIndex) => new.cls = InitClazzIndex[t]
     /\ \A c \in CallIds : \A p \in Processed(c) :
          /\ p \in 1..Len(calls'[c].out)
          /\ calls'[c].out[p] = calls[c].out[p]
     /\ regs' # regs =>
          \A i \in Insts \ {lastReg'.inst} : clazz_index'[i] = clazz_index[i]]_vars

\* C9 witness: one loads call decoded two "material_run" dicts, the first as
\* the built-in MaterialRun and, a registration later, the second as
\* MyMaterialRun.
RegistryOverrideWitness ==
  \E c \in CallIds : \E p \in Processed(c) : \E q \in Processed(c) :
    /\ p < q
    /\ calls[c].doc[p].type = "material_run" /\ calls[c].doc[q].type = "material_run"
    /\ calls[c].out[p].cls = "MaterialRun"
    /\ calls[c].out[q].cls = "MyMaterialRun"

\* ------------------------------------------------------------------ dumps
Addrs == 1..NEnt

\* the entities reachable from entity a, a included
RECURSIVE Reach(_, _)
Reach(h, a) == {a} \cup UNION {Reach(h, h[a].refs[i]) : i \in 1..Len(h[a].refs)}

\* the token set_uuids gives entity a: unique to the entity
AutoId(a) == <<"u1", "u2", "u3", "u4", "u5">>[a]

\* set_uuids: every reachable entity without a uid gets one in scope "auto",
\* written back onto the entity
SetUuids(h, r) ==
  [a \in DOMAIN h |->
     IF a \in Reach(h, r) /\ h[a].uids = {}
     THEN [h[a] EXCEPT !.uids = {<<"auto", AutoId(a)>>}]
     ELSE h[a]]

\* position of the scopes in lexicographic order
ScopeRank(sc) ==
  CASE sc = "ID" -> 1 [] sc = "My" -> 2 [] sc = "auto" -> 3
    [] sc = "id" -> 4 [] sc = "my" -> 5 [] OTHER -> 6

\* the pair a link to an entity is built from: the one of smallest scope;
\* an entity without uids has none to offer
LinkPair(uids) ==
  IF uids = {} THEN <<"", "">>
  ELSE CHOOSE u \in uids : \A w \in uids : ScopeRank(u[1]) <= ScopeRank(w[1])

\* the link token that stands for entity a
LinkOf(h, a) == LinkText(LinkPair(h[a].uids)[1], LinkPair(h[a].uids)[2])

\* substitute_links on entity a as outermost value, then the encoder: the
\* entity written in full with its type tag, every entity it references
\* written as a link
EntityText(h, a) ==
  EntText(Typ(h[a].cls), h[a].uids, h[a].name,
          [i \in 1..Len(h[a].refs) |-> LinkOf(h, h[a].refs[i])])

RECURSIVE Listed(_, _, _)
\* the first n places of the listing order, kept to the addresses in S
Listed(ord, S, n) ==
  IF n = 0 THEN <<>>
  ELSE Listed(ord, S, n - 1) \o (IF ord[n] \in S THEN <<ord[n]>> ELSE <<>>)

\* flatten(value): the entities visited from r, each once, in listing order;
\* the value flatten is called on is not listed itself (wrapped: r sits
\* inside the dict {"object": r}, so the dict is that value and r is listed)
Flatten(h, r, wrapped, ord) ==
  Listed(ord, IF wrapped THEN Reach(h, r) ELSE Reach(h, r) \ {r}, Len(ord))

\* position of the keys in lexicographic order
KeyRank(key) ==
  CASE key = "context" -> 1 [] key = "k" -> 2 [] key = "object" -> 3
    [] key = "refs" -> 4 [] OTHER -> 5

\* json.dumps without sort_keys: the keys written in insertion order
SortKeysOff(fs) == fs

RECURSIVE SortKeys(_)
\* sort_keys=True: the keys of a dict written in sorted order
SortKeys(fs) ==
  IF fs = <<>> THEN <<>>
  ELSE LET m == CHOOSE i \in 1..Len(fs) :
                  \A j \in 1..Len(fs) : KeyRank(fs[i].key) <= KeyRank(fs[j].key)
       IN  <<fs[m]>> \o SortKeys([i \in 1..(Len(fs) - 1) |-> IF i < m THEN fs[i] ELSE fs[i + 1]])

\* json.dumps(res, cls=GEMDEncoder, sort_keys=True) of the dict res whose
\* keys were inserted in the order of fs
EncodeDict(fs) == Text(FALSE, "", "", "", {}, "", SortKeys(fs))

\* dumps calling flatten(obj) in place of flatten(res)
DumpsTextUnwrapped(h, r, ord) ==
  LET h2         == SetUuids(h, r)
      additional == Flatten(h2, r, FALSE, ord)
  IN  EncodeDict(<<[key |-> "object", list |-> FALSE, subs |-> <<LinkOf(h2, r)>>],
                   [key |-> "context", list |-> TRUE,
                    subs |-> [i \in 1..Len(additional) |-> EntityText(h2, additional[i])]]>>)

\* dumps calling substitute_links(res) before flatten(res)
DumpsTextLinkFirst(h, r, ord) ==
  LET h2         == SetUuids(h, r)
      additional == Flatten(h2, r, TRUE, ord)
  IN  EncodeDict(<<[key |-> "object", list |-> FALSE, subs |-> <<LinkOf(h, r)>>],
                   [key |-> "context", list |-> TRUE,
                    subs |-> [i \in 1..Len(additional) |-> EntityText(h2, additional[i])]]>>)

\* the string dumps(obj) returns for obj = entity r of heap h (uids not yet
\* assigned): res = {"object": obj}; additional = flatten(res);
\* res = substitute_links(res); res["context"] = additional; json.dumps
DumpsText(h, r, ord) ==
  LET h2         == SetUuids(h, r)
      additional == Flatten(h2, r, TRUE, ord)
  IN  EncodeDict(<<[key |-> "object", list |-> FALSE, subs |-> <<LinkOf(h2, r)>>],
                   [key |-> "context", list |-> TRUE,
                    subs |-> [i \in 1..Len(additional) |-> EntityText(h2, additional[i])]]>>)

\* GEMDJson.dumps(obj) for obj = root
Dumps ==
  /\ Len(texts) < MaxDumps
  /\ texts' = Append(texts, DumpsText(heap, root, order))
  /\ heap' = SetUuids(heap, root)
  /\ UNCHANGED <<root, order, regVars, decodeVars>>

\* ----------------------------------------------------- dumps, then loads
\* the uids an entity may have been given by the caller
PresetUids(a) ==
  <<{<<"id", "a">>}, {<<"ID", "b">>, <<"my", "x">>}, {<<"My", "c">>},
    {<<"id", "d">>}, {<<"id", "e">>}>>[a]

ClassOf(a) == <<"MaterialRun", "ProcessRun", "MaterialRun", "ProcessRun", "MaterialRun">>[a]

NameOf(a) == <<"N1", "N2", "N3", "N4", "N5">>[a]

\* the reference lists of at most b references tried for entity a of a graph
\* of n entities: to later entities only, so that the graph is acyclic
RefSeqs(a, b, n) == UNION {[1..k -> (a + 1)..n] : k \in 0..b}

RECURSIVE RefChoices(_, _, _)
\* the reference lists of entities 1..a of a graph of n entities, at most b
\* references in all
RefChoices(a, b, n) ==
  IF a = 0 THEN {<<>>}
  ELSE UNION {{Append(R, r) : R \in RefChoices(a - 1, b - Len(r), n)} :
                r \in RefSeqs(a, b, n)}

\* which entities come with uids given by the caller: none, all, every
\* second one
UidChoices(n) ==
  {{}, 1..n, {a \in 1..n : a % 2 = 1}, {a \in 1..n : a % 2 = 0}}

\* the acyclic entity graphs of exactly n entities tried: every entity is
\* reachable from entity 1, the root
GraphsOf(n) ==
  {h \in {[a \in 1..n |-> [cls |-> ClassOf(a), name |-> NameOf(a),
                           uids |-> IF a \in U THEN PresetUids(a) ELSE {},
                           refs |-> R[a]]] :
            U \in UidChoices(n), R \in RefChoices(n, MaxRefs, n)} :
     Reach(h, 1) = 1..n}

\* the acyclic entity graphs tried
Graphs == UNION {GraphsOf(n) : n \in Addrs}

\* the listing orders tried for a graph of n entities
Orders(n) == {f \in [1..n -> 1..n] : \A a \in 1..n, b \in 1..n : f[a] = f[b] => a = b}

InitRT ==
  /\ InitDecode
  /\ heap \in Graphs
  /\ root = 1
  /\ texts = <<>>
  /\ order \in Orders(Len(heap))

\* dumps of an object graph, and loads of a string dumps returned
NextRT ==
  \/ Dumps
  \/ \E n \in 1..Len(texts) : Loads(1, "j1", texts[n])

SpecRT == InitRT /\ [][NextRT]_vars

\* the value of key "refs" of a decoded object
RefsOf(h) ==
  LET F == {f \in 1..Len(h.fields) : h.fields[f].key = "refs"}
  IN  IF F = {} THEN <<>> ELSE h.fields[CHOOSE f \in F : TRUE].vals

\* decoded value v has the type, name, uids and number of references of
\* source entity a
SameEntity(a, v) ==
  /\ v.k = "obj"
  /\ LET h == calls[v.c].out[v.p]
     IN  /\ h.made /\ h.cls = heap[a].cls
         /\ h.name = heap[a].name
         /\ h.uids = heap[a].uids
         /\ Len(RefsOf(h)) = Len(heap[a].refs)

RECURSIVE Pairs(_, _)
\* the pairs (source entity, decoded value) met when the source graph and the
\* decoded graph are walked together from (a, v)
Pairs(a, v) ==
  {<<a, v>>} \cup
    (IF SameEntity(a, v)
     THEN UNION {Pairs(heap[a].refs[i], RefsOf(calls[v.c].out[v.p])[i]) :
                   i \in 1..Len(heap[a].refs)}
     ELSE {})

\* the decoded value v is isomorphic to the source graph at a: same shape and
\* field values, and two references are to one source entity exactly when
\* they are to one decoded object
Isomorphic(a, v) ==
  /\ \A x \in Pairs(a, v) : SameEntity(x[1], x[2])
  /\ \A x \in Pairs(a, v), y \in Pairs(a, v) : (x[1] = y[1]) <=> (x[2] = y[2])

\* position of address a in the listing order
PlaceOf(ord, a) == CHOOSE n \in 1..Len(ord) : ord[n] = a

\* every reachable entity is listed after the entities it references
DependenciesFirst ==
  \A a \in Reach(heap, root) : \A i \in 1..Len(heap[a].refs) :
    PlaceOf(order, heap[a].refs[i]) < PlaceOf(order, a)

\* a loads call on a string returned by dumps has returned
LoadedDump(c) ==
  /\ calls[c].status = "done" /\ calls[c].envelope
  /\ \E n \in 1..Len(texts) : calls[c].doc = texts[n]

ContextEntries(doc) ==
  LET top == doc[Len(doc)]
  IN  UNION {{top.fields[f].kids[j] : j \in 1..Len(top.fields[f].kids)} :
               f \in {g \in 1..Len(top.fields) : top.fields[g].key = "context"}}

\* context entry p of doc is entity a written in full
FullEntry(doc, p, a) ==
  /\ doc[p].tagged /\ doc[p].type = Typ(heap[a].cls)
  /\ doc[p].uids = heap[a].uids /\ doc[p].uids # {}
  /\ doc[p].name = heap[a].name
  /\ \E f \in 1..Len(doc[p].fields) :
       /\ doc[p].fields[f].key = "refs"
       /\ Len(doc[p].fields[f].kids) = Len(heap[a].refs)
       /\ \A i \in 1..Len(heap[a].refs) :
            /\ IsLinkDict(doc[doc[p].fields[f].kids[i]])
            /\ Carries(heap[heap[a].refs[i]],
                       doc[doc[p].fields[f].kids[i]].scope,
                       doc[doc[p].fields[f].kids[i]].id)

\* C4: in every string dumps returned, each entity reachable from the root
\* is written in full exactly once, as an entry of "context"; every other
\* dict of the string except the envelope is a link token; and every link
\* token names, by scope and id, exactly one entry of "context".
EnvelopeInvariant ==
  \A n \in 1..Len(texts) :
    LET doc == texts[n]
        ctx == ContextEntries(doc)
    IN  /\ \A a \in Reach(heap, root) \ {root} :
             Cardinality({p \in ctx : FullEntry(doc, p, a)}) = 1
        /\ \A p \in ctx : \E a \in Reach(heap, root) : FullEntry(doc, p, a)
        /\ \A p \in (1..(Len(doc) - 1)) \ ctx : IsLinkDict(doc[p])
        /\ \A p \in 1..Len(doc) : IsLinkDict(doc[p]) =>
             Cardinality({q \in ctx : Carries(doc[q], doc[p].scope, doc[p].id)}) = 1
        /\ HasObjectKey(doc)

\* C4 witness: dumps has returned a string for a graph whose root references
\* entity 2 twice and entity 2 references entity 3, no entity having had a
\* uid before.
EnvelopeWitness ==
  /\ Len(heap) = 3
  /\ Len(texts) >= 1
  /\ heap[1].refs = <<2, 2>> /\ heap[2].refs = <<3>>
  /\ \A a \in {1, 2, 3} : heap[a].uids = {<<"auto", AutoId(a)>>}
  /\ Cardinality(ContextEntries(texts[1])) = 3

====
